---- MODULE Spec2Model ----
(***************************************************************************)
(* SubmenuController (src/components/menu-item/submenu-controller.ts).     *)
(*                                                                         *)
(* The controller is modelled together with the part of its environment    *)
(* that it reads and writes: the host menu item (disabled flag, DOM        *)
(* liveness, pending reactive update, light-DOM submenu content), the      *)
(* popup element behind popupRef, the event listeners registered on the    *)
(* host and on the document, and the element holding focus.                *)
(*                                                                         *)
(* Every method of the controller is an operator over a record `s` that    *)
(* holds the fields the method can read or write; the actions apply the    *)
(* operators to the current state and commit the result.                   *)
(*                                                                         *)
(* Environment assumptions (Lit ReactiveElement and the DOM):              *)
(*  - connectedCallback / disconnectedCallback alternate;                  *)
(*  - a requested update is performed later, also while the host is out    *)
(*    of the document, once the host has been connected; it renders, then  *)
(*    calls hostUpdated, then resolves updateComplete;                     *)
(*  - an exception escaping hostUpdated rejects updateComplete;            *)
(*  - addEventListener keeps one registration per (type, callback);        *)
(*  - focus() moves focus when the element is in a live document; whether  *)
(*    the element is currently visible is not modelled;                    *)
(*  - relatedTarget of a focusout is null or an Element.                   *)
(***************************************************************************)
EXTENDS Integers, Sequences, FiniteSets, TLC

VARIABLES
    live,           \* host is in the document (between hostConnected and hostDisconnected)
    everConnected,  \* host has been connected once: reactive updates are enabled
    disabled,       \* host.disabled
    content,        \* light-DOM elements assigned to slot "submenu", in document order
    rendered,       \* host has rendered once: renderRoot holds slot[name='submenu']
    updatePending,  \* host has a requested update that has not been performed yet
    isConnected,    \* SubmenuController.isConnected
    listeners,      \* event listeners currently registered (DOM keeps each at most once)
    popup,          \* popupRef.value is defined
    active,         \* popupRef.value.active (FALSE while popup is absent)
    skidding,       \* SubmenuController.skidding
    popupSkidding,  \* skidding attribute last rendered onto the popup
    focused,        \* element holding focus: "outside", "host" or a descendant id
    pendingFocus,   \* targets of the updateComplete.then continuations not yet run
    lastGuard,      \* history: outcome of the latest guard evaluation / hostDisconnected
    last            \* history: what the latest callback or handler invocation did

vars == << live, everConnected, disabled, content, rendered, updatePending,
           isConnected, listeners, popup, active, skidding, popupSkidding,
           focused, pendingFocus, lastGuard, last >>

----------------------------------------------------------------------------
(* Bounds *)

\* at most this many deferred focus continuations are outstanding at once
MaxPending == 1

\* generated submenu contents hold at most this many elements
MaxElts == 3

----------------------------------------------------------------------------
(* DOM fixtures *)

NoElt == "null"
Host == "host"
Outside == "outside"

Elt(id, tag, role) == [id |-> id, tag |-> tag, role |-> role]
Top(id, tag, role, desc) == [id |-> id, tag |-> tag, role |-> role, desc |-> desc]

\* submenu contents the host can be given; desc lists the descendants of an
\* assigned element in document order
Contents ==
    { << >>,
      << Top("menu1", "sl-menu", "menu",
             << Elt("a1", "sl-menu-item", "menuitem"), Elt("a2", "sl-menu-item", "menuitem") >>) >>,
      << Top("box", "div", "", << Elt("d1", "div", "") >>) >>,
      << Top("top", "sl-menu-item", "menuitem", << >>) >>,
      << Top("box", "div", "", << Elt("d1", "div", "") >>),
         Top("menu2", "sl-menu", "menu",
             << Elt("r1", "div", "menuitemcheckbox"), Elt("a1", "sl-menu-item", "menuitem") >>) >> }

\* role attribute values that begin with "menuitem"
RolesWithMenuitemPrefix == { "menuitem", "menuitemcheckbox", "menuitemradio" }

\* ids of the light-DOM descendants of the host under content c
Items(c) ==
    { c[i].id : i \in 1..Len(c) } \cup
    UNION { { c[i].desc[j].id : j \in 1..Len(c[i].desc) } : i \in 1..Len(c) }

AllItems == UNION { Items(c) : c \in Contents }

\* host.contains(e): the host itself or one of its light-DOM descendants
Contains(c, e) == e = Host \/ e \in Items(c)

\* hasSlotController.test('submenu'): the host has a child assigned to the slot
HasSlotTest(c) == Len(c) > 0

\* the selector "sl-menu-item, [role^='menuitem']"
MatchesMenuItem(e) == e.tag = "sl-menu-item" \/ e.role \in RolesWithMenuitemPrefix

\* elt.querySelector(selector): first matching descendant of elt, elt excluded
QuerySelector(top) ==
    LET hits == { j \in 1..Len(top.desc) : MatchesMenuItem(top.desc[j]) }
    IN IF hits = {} THEN NoElt
       ELSE top.desc[CHOOSE j \in hits : \A k \in hits : j <= k].id

\* mutant: the loop does not stop at the first hit, the last assigned element decides
FirstMenuItemLastAssigned(c) ==
    IF c = << >> THEN NoElt ELSE QuerySelector(c[Len(c)])

\* the loop over submenuSlot.assignedElements(): first assigned element whose
\* querySelector finds something decides
FirstMenuItem(c) ==
    LET hits == { i \in 1..Len(c) : QuerySelector(c[i]) # NoElt }
    IN IF hits = {} THEN NoElt
       ELSE QuerySelector(c[CHOOSE i \in hits : \A k \in hits : i <= k])

----------------------------------------------------------------------------
(* Generated submenu contents: every forest of at most MaxElts elements *)

ElementKinds ==
    { [tag |-> "div", role |-> ""],
      [tag |-> "div", role |-> "menu"],
      [tag |-> "div", role |-> "menuitemcheckbox"],
      [tag |-> "sl-menu-item", role |-> ""] }

\* sequences of assigned elements, each a kind with the kinds of its
\* descendants in document order, of at most n elements in all
RECURSIVE Shapes(_)
Shapes(n) ==
    IF n = 0 THEN { << >> }
    ELSE { << >> } \cup
         UNION { { << [kind |-> k, desc |-> d] >> \o rest :
                     k \in ElementKinds, d \in [1..m -> ElementKinds], rest \in Shapes(n - 1 - m) }
                 : m \in 0..(n - 1) }

\* number of elements before assigned element i, in document order
RECURSIVE Offset(_, _)
Offset(f, i) == IF i = 1 THEN 0 ELSE Offset(f, i - 1) + 1 + Len(f[i - 1].desc)

\* the elements get their position in document order as id
Label(f) ==
    [i \in 1..Len(f) |->
        Top(ToString(Offset(f, i) + 1), f[i].kind.tag, f[i].kind.role,
            [j \in 1..Len(f[i].desc) |->
                Elt(ToString(Offset(f, i) + 1 + j), f[i].desc[j].tag, f[i].desc[j].role)])]

GeneratedContents == { Label(f) : f \in Shapes(MaxElts) }

----------------------------------------------------------------------------
(* Computed style of host.parentElement *)

\* a CSSStyleValue: a CSSUnitValue in px or in percent, a CSSKeywordValue, or
\* no entry in the map
Px(n) == [kind |-> "px", value |-> n]
Percent(n) == [kind |-> "percent", value |-> n]
Keyword == [kind |-> "keyword", value |-> 0]
Absent == [kind |-> "absent", value |-> 0]

Attrs == << "padding-top", "border-top-width", "margin-top" >>

\* host.parentElement: null, or an element whose computedStyleMap() gives
\* style[i] for Attrs[i]
NoParent == [present |-> FALSE, style |-> << >>]
Parent(p, b, m) == [present |-> TRUE, style |-> << p, b, m >>]

ParentStyles ==
    { Parent(p, b, m) : p \in { Px(8), Percent(5) }, b \in { Px(1) }, m \in { Px(2), Keyword } }

----------------------------------------------------------------------------
(* The controller's methods, as operators over the record s *)

HostListeners == { "host.mouseover", "host.keydown", "host.click", "host.focusout" }
DocumentListeners == { "document.mousedown" }
PopupListeners == { "popup.mouseover" }

\* console.error(...)
ConsoleError(s) == [s EXCEPT !.errors = @ + 1]

\* this.host.requestUpdate()
RequestUpdateCall(s) == [s EXCEPT !.requests = @ + 1, !.updatePending = TRUE]

\* event.preventDefault(); event.stopPropagation()
Consume(s) == [s EXCEPT !.prevented = TRUE, !.stopped = TRUE]

addListeners(s) ==
    IF ~s.isConnected
    THEN [s EXCEPT !.listeners = @ \cup HostListeners \cup DocumentListeners,
                   !.isConnected = TRUE]
    ELSE s

\* mutant: the document listener is not removed
removeListenersLeavesDocument(s) ==
    IF s.isConnected
    THEN [s EXCEPT !.listeners = @ \ (PopupListeners \cup HostListeners),
                   !.isConnected = FALSE]
    ELSE s

removeListeners(s) ==
    IF s.isConnected
    THEN [s EXCEPT !.listeners = @ \ (PopupListeners \cup HostListeners \cup DocumentListeners),
                   !.isConnected = FALSE]
    ELSE s

\* mutant: the active flag is written without comparing it to the requested state
setSubmenuStateUnconditional(s, state) ==
    IF s.popup
    THEN RequestUpdateCall([s EXCEPT !.active = state, !.writes = @ + 1])
    ELSE s

setSubmenuState(s, state) ==
    IF s.popup
    THEN IF s.active # state
         THEN RequestUpdateCall([s EXCEPT !.active = state, !.writes = @ + 1])
         ELSE s
    ELSE s

\* mutant: the update is requested outside the popup check
enableSubmenuRequestsAlways(s) ==
    IF s.popup THEN setSubmenuState(s, TRUE) ELSE RequestUpdateCall(s)

enableSubmenu(s) == setSubmenuState(s, TRUE)

disableSubmenu(s) == setSubmenuState(s, FALSE)

isExpanded(s) == IF s.popup THEN s.active ELSE FALSE

\* the guard of hostConnected and hostUpdated
Guard(s) == HasSlotTest(s.content) /\ ~s.disabled

\* one step of the reduce in updateSkidding: the px value of one property.
\* CSSUnitValue.to("px") throws for a unit that is not an absolute length.
PxValue(styleValue) ==
    LET unitValue == IF styleValue.kind \in { "px", "percent" } THEN styleValue ELSE Px(0)
    IN [ok |-> unitValue.kind = "px", value |-> unitValue.value]

updateSkidding(s, parent) ==
    IF ~parent.present
    THEN [s EXCEPT !.threw = TRUE]
    ELSE LET px == [i \in 1..3 |-> PxValue(parent.style[i])]
         IN IF \E i \in 1..3 : ~px[i].ok
            THEN [s EXCEPT !.threw = TRUE]
            ELSE [s EXCEPT !.skidding = ((0 - px[1].value) - px[2].value) - px[3].value]

hostConnected(s) ==
    IF Guard(s) THEN addListeners(s) ELSE s

\* mutant: disconnecting also closes the submenu
hostDisconnectedCloses(s) == setSubmenuState(removeListeners(s), FALSE)

hostDisconnected(s) == removeListeners(s)

hostUpdated(s, parent) ==
    IF Guard(s)
    THEN updateSkidding(addListeners(s), parent)
    ELSE removeListeners(s)

renderSubmenu(s) ==
    IF ~s.isConnected
    THEN [s EXCEPT !.rendered = TRUE, !.popup = FALSE, !.active = FALSE]
    ELSE [s EXCEPT !.rendered = TRUE, !.popup = TRUE,
                   !.active = IF s.popup THEN s.active ELSE FALSE,
                   !.popupSkidding = s.skidding]

handleMouseOver(s) ==
    IF HasSlotTest(s.content) THEN enableSubmenu(s) ELSE s

\* mutant: only a null relatedTarget closes the submenu
handleFocusOutNullOnly(s, relatedTarget) ==
    IF relatedTarget = NoElt
    THEN disableSubmenu(s)
    ELSE s

handleFocusOut(s, relatedTarget) ==
    IF relatedTarget = NoElt \/ ~Contains(s.content, relatedTarget)
    THEN disableSubmenu(s)
    ELSE s

\* element.focus(): focus moves when the element is attached to a live
\* document; the element losing focus dispatches focusout, which reaches
\* handleFocusOut when it bubbles through the host
Focus(s, elt) ==
    LET called == [s EXCEPT !.focusCalls = Append(@, elt)]
    IN IF ~s.live \/ ~Contains(s.content, elt) \/ s.focused = elt
       THEN called
       ELSE LET moved == [called EXCEPT !.focused = elt]
            IN IF Contains(s.content, s.focused) /\ "host.focusout" \in s.listeners
               THEN handleFocusOut(moved, elt)
               ELSE moved

\* this.host.querySelector(":focus")
QueryFocus(s) == IF s.focused \in Items(s.content) THEN s.focused ELSE NoElt

OpenKeys == { "ArrowRight", "Enter", " " }
CloseKeys == { "Escape", "Tab" }
Keys == OpenKeys \cup CloseKeys \cup { "ArrowLeft", "a" }

\* mutant: Escape and Tab fall through without closing
handleKeyDownCloseIgnored(s) == s

\* case 'Escape' / 'Tab'
handleKeyDownClose(s) == disableSubmenu(s)

\* mutant: ArrowLeft acts whether or not a descendant has focus
handleKeyDownArrowLeftAlways(s) == disableSubmenu(Focus(Consume(s), Host))

\* case 'ArrowLeft'
handleKeyDownArrowLeft(s) ==
    LET focusedElt == QueryFocus(s)
    IN IF focusedElt # NoElt /\ focusedElt # Host
       THEN disableSubmenu(Focus(Consume(s), Host))
       ELSE s

\* mutant: the focus is deferred and an update requested even when the popup is active
handleKeyDownFocusFirstAlwaysDefers(s, firstMenuItem) ==
    IF s.popup
    THEN LET opened == enableSubmenu(Consume(s))
             deferred == [opened EXCEPT !.pendingFocus = Append(@, firstMenuItem)]
         IN RequestUpdateCall(deferred)
    ELSE s

\* case 'ArrowRight' / 'Enter' / ' ', once firstMenuItem has been found
handleKeyDownFocusFirst(s, firstMenuItem) ==
    IF s.popup
    THEN IF s.active
         THEN Focus(Consume(s), firstMenuItem)
         ELSE LET opened == enableSubmenu(Consume(s))
                  deferred == [opened EXCEPT !.pendingFocus = Append(@, firstMenuItem)]
              IN RequestUpdateCall(deferred)
    ELSE s

\* mutant: the event is consumed before the slot and the first item are looked up
handleKeyDownOpenConsumesFirst(s) ==
    IF ~s.rendered
    THEN ConsoleError(Consume(s))
    ELSE LET firstMenuItem == FirstMenuItem(s.content)
         IN IF firstMenuItem = NoElt
            THEN ConsoleError(Consume(s))
            ELSE handleKeyDownFocusFirst(s, firstMenuItem)

\* case 'ArrowRight' / 'Enter' / ' '
handleKeyDownOpen(s) ==
    IF ~s.rendered
    THEN ConsoleError(s)
    ELSE LET firstMenuItem == FirstMenuItem(s.content)
         IN IF firstMenuItem = NoElt
            THEN ConsoleError(s)
            ELSE handleKeyDownFocusFirst(s, firstMenuItem)

handleKeyDown(s, key) ==
    CASE key \in CloseKeys -> handleKeyDownClose(s)
      [] key = "ArrowLeft" -> handleKeyDownArrowLeft(s)
      [] key \in OpenKeys -> handleKeyDownOpen(s)
      [] OTHER -> s

\* mutant: the click is consumed whatever its target
handleClickAnyTarget(s, target) == Consume(s)

handleClick(s, target) ==
    IF target = Host THEN Consume(s) ELSE s

\* mutant: the composed-path test is inverted
handleDocumentMouseDownInverted(s, pathIncludesHost) ==
    IF pathIncludesHost THEN disableSubmenu(s) ELSE s

handleDocumentMouseDown(s, pathIncludesHost) ==
    IF ~pathIncludesHost THEN disableSubmenu(s) ELSE s

\* the continuations registered on host.updateComplete, run in registration order
RECURSIVE RunContinuations(_, _)
RunContinuations(s, targets) ==
    IF targets = << >> THEN s
    ELSE RunContinuations(Focus(s, Head(targets)), Tail(targets))

----------------------------------------------------------------------------
(* State, and the record the methods work on *)

Cur ==
    [live |-> live, disabled |-> disabled, content |-> content, rendered |-> rendered,
     updatePending |-> updatePending, isConnected |-> isConnected, listeners |-> listeners,
     popup |-> popup, active |-> active, skidding |-> skidding,
     popupSkidding |-> popupSkidding, focused |-> focused, pendingFocus |-> pendingFocus,
     prevented |-> FALSE, stopped |-> FALSE, errors |-> 0, requests |-> 0,
     writes |-> 0, focusCalls |-> << >>, threw |-> FALSE]

\* what an invocation did, with the state it started from
Record(op, key, arg, guard, s) ==
    [op |-> op, key |-> key, arg |-> arg, guard |-> guard,
     prevented |-> s.prevented, stopped |-> s.stopped, errors |-> s.errors,
     requests |-> s.requests, writes |-> s.writes, focusCalls |-> s.focusCalls,
     threw |-> s.threw,
     preExpanded |-> isExpanded(Cur), prePopup |-> popup, preFocused |-> focused,
     preConnected |-> isConnected, prePending |-> pendingFocus,
     preUpdatePending |-> updatePending, parent |-> NoParent]

Commit(s) ==
    /\ live' = s.live
    /\ disabled' = s.disabled
    /\ content' = s.content
    /\ rendered' = s.rendered
    /\ updatePending' = s.updatePending
    /\ isConnected' = s.isConnected
    /\ listeners' = s.listeners
    /\ popup' = s.popup
    /\ active' = s.active
    /\ skidding' = s.skidding
    /\ popupSkidding' = s.popupSkidding
    /\ focused' = s.focused
    /\ pendingFocus' = s.pendingFocus

Init ==
    /\ live = FALSE
    /\ everConnected = FALSE
    /\ disabled \in BOOLEAN
    /\ content \in Contents
    /\ rendered = FALSE
    /\ updatePending = TRUE
    /\ isConnected = FALSE
    /\ listeners = {}
    /\ popup = FALSE
    /\ active = FALSE
    /\ skidding = 0
    /\ popupSkidding = 0
    /\ focused = Outside
    /\ pendingFocus = << >>
    /\ lastGuard = FALSE
    /\ last = Record("init", "", NoElt, FALSE, Cur)

----------------------------------------------------------------------------
(* Lifecycle callbacks *)

\* the host is inserted into a document: connectedCallback calls hostConnected
HostConnected ==
    /\ ~live
    /\ LET s == hostConnected([Cur EXCEPT !.live = TRUE])
       IN /\ Commit(s)
          /\ last' = Record("hostConnected", "", NoElt, Guard(Cur), s)
    /\ everConnected' = TRUE
    /\ lastGuard' = Guard(Cur)

\* the host is removed from its document: whatever held focus inside it loses it
HostDisconnected ==
    /\ live
    /\ LET s == hostDisconnected([Cur EXCEPT !.live = FALSE,
                                              !.focused = IF Contains(content, focused)
                                                          THEN Outside ELSE focused])
       IN /\ Commit(s)
          /\ last' = Record("hostDisconnected", "", NoElt, FALSE, s)
    /\ lastGuard' = FALSE
    /\ UNCHANGED everConnected

\* the host performs its pending update: it renders (renderSubmenu), calls
\* hostUpdated and then resolves updateComplete, which runs the deferred
\* focus continuations; an exception escaping hostUpdated rejects
\* updateComplete instead, and the continuations are dropped
HostUpdate(parent) ==
    /\ everConnected
    /\ updatePending
    /\ (~parent.present => ~live)
    /\ LET r == renderSubmenu([Cur EXCEPT !.updatePending = FALSE, !.pendingFocus = << >>])
           u == hostUpdated(r, parent)
           s == IF u.threw THEN u ELSE RunContinuations(u, pendingFocus)
       IN /\ Commit(s)
          /\ last' = [Record("hostUpdated", "", NoElt, Guard(Cur), s) EXCEPT !.parent = parent]
    /\ lastGuard' = Guard(Cur)
    /\ UNCHANGED everConnected

----------------------------------------------------------------------------
(* Input events: a handler runs when its listener is registered; an event
   on the host needs the host to be in the document *)

MouseOver ==
    /\ "host.mouseover" \in listeners
    /\ live
    /\ LET s == handleMouseOver(Cur)
       IN /\ Commit(s)
          /\ last' = Record("mouseover", "", NoElt, FALSE, s)
    /\ UNCHANGED << everConnected, lastGuard >>

KeyDown(key) ==
    /\ "host.keydown" \in listeners
    /\ live
    /\ LET s == handleKeyDown(Cur, key)
       IN /\ Len(s.pendingFocus) <= MaxPending
          /\ Commit(s)
          /\ last' = Record("keydown", key, NoElt, FALSE, s)
    /\ UNCHANGED << everConnected, lastGuard >>

Click(target) ==
    /\ "host.click" \in listeners
    /\ live
    /\ Contains(content, target)
    /\ LET s == handleClick(Cur, target)
       IN /\ Commit(s)
          /\ last' = Record("click", "", target, FALSE, s)
    /\ UNCHANGED << everConnected, lastGuard >>

\* focus moves from an element of the host's subtree to another element, or
\* out of the document (relatedTarget null): focusout bubbles through the host
FocusOut(to, relatedTarget) ==
    /\ "host.focusout" \in listeners
    /\ live
    /\ Contains(content, focused)
    /\ to # focused
    /\ to = Outside \/ Contains(content, to)
    /\ relatedTarget = to \/ (to = Outside /\ relatedTarget = NoElt)
    /\ LET s == handleFocusOut([Cur EXCEPT !.focused = to], relatedTarget)
       IN /\ Commit(s)
          /\ last' = Record("focusout", "", relatedTarget, FALSE, s)
    /\ UNCHANGED << everConnected, lastGuard >>

DocumentMouseDown(pathIncludesHost) ==
    /\ "document.mousedown" \in listeners
    /\ LET s == handleDocumentMouseDown(Cur, pathIncludesHost)
       IN /\ Commit(s)
          /\ last' = Record("mousedown", "", IF pathIncludesHost THEN Host ELSE Outside, FALSE, s)
    /\ UNCHANGED << everConnected, lastGuard >>

----------------------------------------------------------------------------
(* Environment: what the page does to the host between callbacks *)

EnvRecord(op) == Record(op, "", NoElt, FALSE, Cur)

\* host.disabled is a reactive property: setting it requests an update
SetDisabled(d) ==
    /\ d # disabled
    /\ disabled' = d
    /\ updatePending' = TRUE
    /\ last' = EnvRecord("setDisabled")
    /\ UNCHANGED << live, everConnected, content, rendered, isConnected, listeners,
                    popup, active, skidding, popupSkidding, focused, pendingFocus, lastGuard >>

\* the children assigned to the submenu slot change: an element that leaves
\* the document loses focus, and the slotchange requests an update
SetContent(c) ==
    /\ c # content
    /\ content' = c
    /\ focused' = IF focused = Host \/ focused \in Items(c) THEN focused ELSE Outside
    /\ updatePending' = TRUE
    /\ last' = EnvRecord("setContent")
    /\ UNCHANGED << live, everConnected, disabled, rendered, isConnected, listeners,
                    popup, active, skidding, popupSkidding, pendingFocus, lastGuard >>

\* some other reactive property of the host changes
RequestUpdate ==
    /\ ~updatePending
    /\ updatePending' = TRUE
    /\ last' = EnvRecord("requestUpdate")
    /\ UNCHANGED << live, everConnected, disabled, content, rendered, isConnected, listeners,
                    popup, active, skidding, popupSkidding, focused, pendingFocus, lastGuard >>

\* focus enters the host's subtree from outside (no focusout reaches the host)
FocusIn(to) ==
    /\ live
    /\ ~Contains(content, focused)
    /\ Contains(content, to)
    /\ focused' = to
    /\ last' = EnvRecord("focusIn")
    /\ UNCHANGED << live, everConnected, disabled, content, rendered, updatePending,
                    isConnected, listeners, popup, active, skidding, popupSkidding,
                    pendingFocus, lastGuard >>

----------------------------------------------------------------------------

Next ==
    \/ HostConnected
    \/ HostDisconnected
    \/ \E parent \in ParentStyles \cup { NoParent } : HostUpdate(parent)
    \/ MouseOver
    \/ \E key \in Keys : KeyDown(key)
    \/ \E target \in { Host } \cup AllItems : Click(target)
    \/ \E to \in { Outside, Host } \cup AllItems, rt \in { NoElt, Outside, Host } \cup AllItems :
          FocusOut(to, rt)
    \/ \E b \in BOOLEAN : DocumentMouseDown(b)
    \/ \E d \in BOOLEAN : SetDisabled(d)
    \/ \E c \in Contents : SetContent(c)
    \/ RequestUpdate
    \/ \E to \in { Host } \cup AllItems : FocusIn(to)

Spec == Init /\ [][Next]_vars

\* First-item resolution on its own: a host that was connected with generated
\* content and has performed its first update (listeners attached, popup
\* rendered and inactive) receives ArrowRight, Enter and Space keydowns
ResolveInit ==
    /\ content \in GeneratedContents
    /\ live = TRUE
    /\ everConnected = TRUE
    /\ disabled = FALSE
    /\ rendered = TRUE
    /\ updatePending = (content = << >>)
    /\ isConnected = TRUE
    /\ listeners = HostListeners \cup DocumentListeners
    /\ popup = TRUE
    /\ active = FALSE
    /\ skidding = 0 - 11
    /\ popupSkidding = 0
    /\ focused = Outside
    /\ pendingFocus = << >>
    /\ lastGuard = TRUE
    /\ last = Record("init", "", NoElt, FALSE, Cur)

ResolveNext == \E key \in OpenKeys : KeyDown(key)

ResolveSpec == ResolveInit /\ [][ResolveNext]_vars

----------------------------------------------------------------------------
(* Type invariant *)

TypeOK ==
    /\ live \in BOOLEAN /\ everConnected \in BOOLEAN /\ disabled \in BOOLEAN
    /\ content \in Contents
    /\ rendered \in BOOLEAN /\ updatePending \in BOOLEAN /\ isConnected \in BOOLEAN
    /\ listeners \subseteq HostListeners \cup DocumentListeners \cup PopupListeners
    /\ popup \in BOOLEAN /\ active \in BOOLEAN
    /\ (active => popup)
    /\ skidding \in Int /\ popupSkidding \in Int
    /\ focused \in { Outside, Host } \cup Items(content)
    /\ (Contains(content, focused) => live)
    /\ Len(pendingFocus) <= MaxPending

----------------------------------------------------------------------------
(* Listener lifecycle *)

\* C1: the listener set is attached exactly when the latest guard evaluation
\* (by hostConnected or hostUpdated) was true and hostDisconnected has not
\* been called since.
AttachedIffLatestGuard == isConnected = lastGuard

\* C2: isConnected is true exactly when every listener that addListeners
\* registers is registered, and false exactly when none is; a second
\* addListeners or removeListeners changes nothing.
ListenersMatchIsConnected ==
    /\ (isConnected => listeners = HostListeners \cup DocumentListeners)
    /\ (~isConnected => listeners = {})
    /\ addListeners(addListeners(Cur)) = addListeners(Cur)
    /\ removeListeners(removeListeners(Cur)) = removeListeners(Cur)
    /\ removeListeners(addListeners(Cur)).listeners = {}

\* C2 witness: hostUpdated called addListeners while the listeners were
\* already attached, and every listener is still registered
AddListenersWhileAttached ==
    /\ last.op = "hostUpdated"
    /\ last.guard
    /\ last.preConnected
    /\ isConnected
    /\ listeners = HostListeners \cup DocumentListeners

----------------------------------------------------------------------------
(* Opening and closing *)

Handlers == { "mouseover", "keydown", "click", "focusout", "mousedown" }

\* C3: with the listeners attached and the guard true, a mouseover on the
\* host leaves the submenu open (isExpanded() is true when handleMouseOver
\* returns).  Stated here for a host that has rendered at least once.
MouseOverOpens ==
    (last.op = "mouseover" /\ isConnected /\ Guard(Cur) /\ rendered) => isExpanded(Cur)

ArrowRightOpensAndDefersFocus ==
    (/\ last.op = "keydown" /\ last.key = "ArrowRight"
     /\ ~last.preExpanded
     /\ rendered
     /\ FirstMenuItem(content) # NoElt)
    => /\ isExpanded(Cur)
       /\ last.prevented /\ last.stopped
       /\ pendingFocus = Append(last.prePending, FirstMenuItem(content))
       /\ focused = last.preFocused

\* C6: an ArrowRight, Enter or Space keydown that finds no slot or no eligible
\* nested item changes nothing, leaves the event unconsumed, reports exactly
\* one error and throws nothing.
FailedLookupOnlyReports ==
    (/\ last.op = "keydown" /\ last.key \in OpenKeys
     /\ (~rendered \/ FirstMenuItem(content) = NoElt))
    => /\ isExpanded(Cur) = last.preExpanded
       /\ last.writes = 0
       /\ last.requests = 0
       /\ updatePending = last.preUpdatePending
       /\ focused = last.preFocused
       /\ last.focusCalls = << >>
       /\ pendingFocus = last.prePending
       /\ ~last.prevented /\ ~last.stopped
       /\ last.errors = 1
       /\ ~last.threw

\* C6 witness: Enter on an open submenu whose content has no eligible nested item
FailedLookupWhileOpen ==
    /\ last.op = "keydown" /\ last.key = "Enter"
    /\ rendered
    /\ content # << >>
    /\ FirstMenuItem(content) = NoElt
    /\ last.preExpanded
    /\ last.errors = 1

\* C7: ArrowLeft with a descendant focused closes the submenu, focuses the
\* host and consumes the event; ArrowLeft with no descendant focused does
\* not consume the event, moves no focus and changes no state.
ArrowLeftOnlyFromDescendant ==
    (last.op = "keydown" /\ last.key = "ArrowLeft") =>
        IF last.preFocused \in Items(content)
        THEN /\ ~isExpanded(Cur)
             /\ focused = Host
             /\ last.prevented /\ last.stopped
        ELSE /\ ~last.prevented /\ ~last.stopped
             /\ focused = last.preFocused
             /\ last.focusCalls = << >>
             /\ isExpanded(Cur) = last.preExpanded
             /\ last.writes = 0

\* C7 witness: ArrowLeft from a focused descendant closed an open submenu
ArrowLeftClosedFromDescendant ==
    /\ last.op = "keydown" /\ last.key = "ArrowLeft"
    /\ last.preFocused \in Items(content)
    /\ last.preExpanded
    /\ ~isExpanded(Cur)
    /\ focused = Host

\* C8: a document mousedown whose composed path excludes the host leaves the
\* submenu closed; one whose path includes the host leaves the state alone.
OutsideMouseDownCloses ==
    last.op = "mousedown" =>
        IF last.arg = Outside
        THEN ~isExpanded(Cur)
        ELSE isExpanded(Cur) = last.preExpanded /\ last.writes = 0

\* C8 witness: a mousedown outside the host closed an open submenu
OutsideMouseDownClosedOpenSubmenu ==
    /\ last.op = "mousedown"
    /\ last.arg = Outside
    /\ last.preExpanded
    /\ ~isExpanded(Cur)

\* the events that ask for closed
AsksForClosed ==
    \/ last.op = "keydown" /\ last.key \in CloseKeys
    \/ last.op = "keydown" /\ last.key = "ArrowLeft" /\ last.preFocused \in Items(content)
    \/ last.op = "focusout" /\ (last.arg = NoElt \/ ~Contains(content, last.arg))
    \/ last.op = "mousedown" /\ last.arg = Outside

\* C9: an event that asks for the state the submenu is already in writes no
\* active flag and requests no update.
SameStateIsNoOp ==
    (\/ last.op = "mouseover" /\ last.preExpanded
     \/ AsksForClosed /\ ~last.preExpanded)
    => last.writes = 0 /\ last.requests = 0

\* C9 witness: a mouseover on a host whose submenu is already open
MouseOverWhileOpen ==
    /\ last.op = "mouseover"
    /\ last.preExpanded
    /\ HasSlotTest(content)
    /\ isExpanded(Cur)

\* C10: a handler invocation that changes the open/closed state issues
\* exactly one requestUpdate.
StateChangeRequestsOnce ==
    (last.op \in Handlers /\ isExpanded(Cur) # last.preExpanded) => last.requests = 1

----------------------------------------------------------------------------
(* Escape / Tab, and the skidding offset *)

\* C11: an Escape or Tab keydown handled by the controller leaves the
\* submenu closed, whatever the state before.
EscapeTabClose ==
    (last.op = "keydown" /\ last.key \in CloseKeys) => ~isExpanded(Cur)

\* C11 witness: Escape closed an open submenu
EscapeClosedOpenSubmenu ==
    /\ last.op = "keydown" /\ last.key = "Escape"
    /\ last.preExpanded
    /\ ~isExpanded(Cur)

\* a property that is absent or not a length counts as zero
LengthOrZero(styleValue) == IF styleValue.kind = "px" THEN styleValue.value ELSE 0

NegatedInset(parent) ==
    0 - (LengthOrZero(parent.style[1]) + LengthOrZero(parent.style[2])
           + LengthOrZero(parent.style[3]))

\* C12: after every hostUpdated call in which the guard holds, skidding is
\* the negated sum of the parent's padding-top, border-top-width and
\* margin-top in px, a property that is absent or not a length counting as
\* zero (-11 for 8px, 1px, 2px), and nothing is thrown.
SkiddingIsNegatedInset ==
    (last.op = "hostUpdated" /\ last.guard /\ last.parent.present)
    => /\ skidding = NegatedInset(last.parent)
       /\ ~last.threw
       /\ (last.parent = Parent(Px(8), Px(1), Px(2)) => skidding = 0 - 11)

----------------------------------------------------------------------------
(* Deferred focus and clicks *)

\* C13: when the listeners are detached (by hostDisconnected, or by the
\* hostUpdated of the resolving update) before updateComplete resolves, the
\* deferred focus continuation moves focus to no element.
TornDownContinuationIsNoOp ==
    (last.op = "hostUpdated" /\ last.prePending # << >> /\ ~isConnected)
    => focused = last.preFocused

\* C14: a click whose target is the host is consumed, any other click is
\* not, and neither changes the open/closed state nor requests an update.
ClickOnHeadIsInert ==
    last.op = "click" =>
        /\ (last.arg = Host => last.prevented /\ last.stopped)
        /\ (last.arg # Host => ~last.prevented /\ ~last.stopped)
        /\ isExpanded(Cur) = last.preExpanded
        /\ last.writes = 0
        /\ last.requests = 0

\* C14 witness: a click on the host of an open submenu was consumed
ClickOnHostWhileOpen ==
    /\ last.op = "click"
    /\ last.arg = Host
    /\ last.prevented /\ last.stopped
    /\ last.preExpanded
    /\ isExpanded(Cur)

----------------------------------------------------------------------------
(* First-eligible-item resolution *)

\* the elements of content c in document order
RECURSIVE Preorder(_)
Preorder(c) ==
    IF c = << >> THEN << >>
    ELSE << [id |-> c[1].id, tag |-> c[1].tag, role |-> c[1].role, top |-> TRUE] >>
         \o [j \in 1..Len(c[1].desc) |->
                [id |-> c[1].desc[j].id, tag |-> c[1].desc[j].tag,
                 role |-> c[1].desc[j].role, top |-> FALSE]]
         \o Preorder(Tail(c))

\* first eligible element in document order, the assigned elements
\* themselves being candidates or not
FirstEligible(c, withAssigned) ==
    LET po == Preorder(c)
        hits == { k \in 1..Len(po) : MatchesMenuItem(po[k]) /\ (withAssigned \/ ~po[k].top) }
    IN IF hits = {} THEN NoElt
       ELSE po[CHOOSE k \in hits : \A h \in hits : k <= h].id

\* what the latest ArrowRight / Enter / Space keydown resolved: the element
\* it focused or scheduled the focus for, null when it reported an error
Resolved ==
    IF last.errors > 0 THEN NoElt
    ELSE IF last.focusCalls # << >> THEN last.focusCalls[1]
    ELSE pendingFocus[Len(pendingFocus)]

----------------------------------------------------------------------------
(* Open submenu, absent popup, detached listeners, disabled host *)

\* C16: ArrowRight, Enter or Space while the submenu is open and an eligible
\* nested item exists focuses that item at once, consumes the event and
\* changes nothing else.
OpenKeyWhileOpenFocusesFirst ==
    (/\ last.op = "keydown" /\ last.key \in OpenKeys
     /\ last.preExpanded
     /\ FirstMenuItem(content) # NoElt)
    => /\ last.focusCalls = << FirstMenuItem(content) >>
       /\ focused = FirstMenuItem(content)
       /\ last.prevented /\ last.stopped
       /\ isExpanded(Cur)
       /\ last.writes = 0
       /\ last.requests = 0
       /\ pendingFocus = last.prePending
       /\ updatePending = last.preUpdatePending

\* C16 witness: Enter on the focused host of an open submenu moved focus to
\* the first nested item
EnterWhileOpenMovedFocus ==
    /\ last.op = "keydown" /\ last.key = "Enter"
    /\ last.preExpanded
    /\ last.preFocused = Host
    /\ focused = FirstMenuItem(content)
    /\ focused # NoElt

\* C17: the controller writes the active flag from true to false only while
\* handling a closing event (focusout leaving the host, Escape, Tab,
\* ArrowLeft from a descendant, outside mousedown); an open submenu of an
\* attached controller stays open across mouseover, click and any
\* hostUpdated call in which the guard holds.
OnlyClosingEventsClose ==
    /\ (last.preExpanded /\ (last.writes > 0 \/ (popup /\ ~active)))
       => (last.op \in Handlers /\ AsksForClosed)
    /\ (/\ last.preExpanded
        /\ last.preConnected
        /\ \/ last.op \in { "mouseover", "click" }
           \/ last.op = "hostUpdated" /\ last.guard)
       => isExpanded(Cur)

\* C17 witness: an open submenu stayed open across a hostUpdated whose guard held
StayedOpenAcrossUpdate ==
    /\ last.op = "hostUpdated"
    /\ last.guard
    /\ last.preConnected
    /\ last.preExpanded
    /\ isExpanded(Cur)

\* C18: while popupRef.value is undefined isExpanded() is false, and every
\* handler returns without an exception, without requesting an update and
\* without scheduling a deferred focus; ArrowRight, Enter and Space are left
\* unconsumed.
AbsentPopupIsNoOp ==
    /\ (~popup => ~isExpanded(Cur))
    /\ (last.op \in Handlers /\ ~last.prePopup)
       => /\ ~last.threw
          /\ last.requests = 0
          /\ last.writes = 0
          /\ updatePending = last.preUpdatePending
          /\ pendingFocus = last.prePending
          /\ ~isExpanded(Cur)
          /\ (last.op = "keydown" /\ last.key \in OpenKeys
                => ~last.prevented /\ ~last.stopped)

\* C18 witness: ArrowRight with an eligible nested item, the slot rendered
\* and the popup absent
ArrowRightWithoutPopup ==
    /\ last.op = "keydown" /\ last.key = "ArrowRight"
    /\ ~last.prePopup
    /\ rendered
    /\ FirstMenuItem(content) # NoElt
    /\ last.errors = 0
    /\ ~last.prevented

\* C19: a controller whose listeners are detached does not report an open
\* submenu.
DetachedIsNotExpanded == ~isConnected => ~isExpanded(Cur)

\* C20: no handler opens the submenu while the host is disabled.
NoOpenWhileDisabled ==
    (last.op \in Handlers /\ ~last.preExpanded /\ isExpanded(Cur)) => ~disabled

====
